---- MODULE Spec2Model ----
(***************************************************************************)
(* peerchat: the room session (ChatRoom: JoinChatRoom, PubLoop, SubLoop,   *)
(* Exit, UpdateUser) and the UI that drives it (starteventhandler,         *)
(* handlecommand), as a state machine.                                     *)
(*                                                                         *)
(* Goroutines of the node: main, the UI event loop, one handlecommand      *)
(* goroutine per command, and one PubLoop and one SubLoop per session.     *)
(* All channels of the program are unbuffered: a send and its receive are  *)
(* one joint step of the two goroutines.  A select evaluates its channel   *)
(* operands when it is entered; evSel is the session the event loop read   *)
(* from ui.ChatRoom when it entered its select.                            *)
(*                                                                         *)
(* The UI of src/unnamed/part_003 names the session's queues Inbound and   *)
(* Outbound; the ChatRoom of src/unnamed/part_004 names them Messages and  *)
(* PublishQueue.  JoinChatRoom of part_004 never makes the Logs channel    *)
(* (a send on it blocks forever); the ChatRoom revision the UI of part_003 *)
(* is compiled against is not among the sources.  logsMade keeps both      *)
(* builds: FALSE is the constructor as written in part_004, TRUE a         *)
(* constructor that makes the queue.                                       *)
(*                                                                         *)
(* The P2P layer of src/src/p2p.go (Bootstrap and its per-seed goroutines, *)
(* Connect and its discovery loop) is the state of boot and disc and runs  *)
(* under its own specification, SpecP2P.  The service identifier of        *)
(* Connect2 and Provide (adv) runs under SpecCid, the done function of the *)
(* input field in its two revisions (typed) under SpecInput, and the       *)
(* ChatRoom revision that changes room in place, with terminator queues    *)
(* and UpdateRoom (room), under SpecUpdateRoom.                            *)
(***************************************************************************)
EXTENDS Integers, Sequences, FiniteSets, TLC

\* ------------------------------------------------------------------ bounds
MaxInputs == 2      \* lines the user types and deliveries of the remote peer
MaxSubQ == 1        \* messages waiting in a subscription's buffer
MaxUpdates == 2     \* calls of UpdateRoom
MaxLineLen == 3     \* tokens of a line entered in the input field
MaxServiceLen == 2  \* letters of a service name
MaxSeeds == 2       \* bootstrap peers in dht.DefaultBootstrapPeers

\* --------------------------------------------------------------- constants
defaultuser == "newuser"
defaultroom == "lobby"

SelfID == "self"
PeerID == "peer"

\* peer.ID.Pretty(): the string form of an identifier
Pretty(id) == <<"Qm", id>>

\* what the user can type: a line is a sequence of tokens, "/" and " " being
\* tokens of their own
MsgLines == {<<"hello">>}
CmdLines == {<<"/", "quit">>, <<"/", "clear">>, <<"/", "bogus">>,
             <<"/", "room">>, <<"/", "user">>,
             <<"/", "room", " ", "r2">>, <<"/", "user", " ", "u2">>}

\* the -user and -room flags of main: none given, or both
Flags == {[user |-> "", room |-> ""], [user |-> "u1", room |-> "r1"]}

\* the room the remote peer has joined
PeerRoom == "r1"

VARIABLES
    room,       \* the ChatRoom that changes room in place, its loops, UpdateRoom
    typed,      \* the input field: the line entered and what became of it
    adv,        \* per node: the service name compiled in, the identifiers computed
    boot,       \* Bootstrap: main's position, the per-seed goroutines, counters
    disc,       \* Connect: the discovery query and the loop that consumes it
    logsMade,   \* the build: does JoinChatRoom make the Logs channel
    flags,      \* [user, room]: the command line
    mainpc,     \* "start", "running", "stopped", "exited", "panicked", "crashed"
    chatrooms,  \* the sessions created so far, in order of creation
    cur,        \* ui.ChatRoom: index into chatrooms, 0 before the UI exists
    psTopics,   \* topic names with an open handle in the PubSub router
    evpc,       \* event loop: "off", "select", "sendOut", "done"
    evSel,      \* session whose channels the pending select waits on
    evMsg,      \* [line, n]: the line being sent on ui.Outbound, and its number
    handlers,   \* the handlecommand goroutines
    inputsLeft, \* lines and deliveries the environment may still produce
    shown,      \* prefixes of the log entries displayed so far
    published   \* records published to topics by this node

vars == <<room, typed, adv, boot, disc, logsMade, flags, mainpc, chatrooms, cur, psTopics, evpc, evSel, evMsg,
          handlers, inputsLeft, shown, published>>

\* the in-place ChatRoom, the input field and the P2P layer, which no step of a session or of the event
\* loop touches
layervars == <<room, typed, adv, boot, disc>>

Sessions == 1..Len(chatrooms)
Slots == 1..MaxInputs

\* ------------------------------------------------------------ wire format
\* json.Marshal of a ChatMessage: an object with the three fields
Marshal(cm) == <<"{", cm.Message, cm.SenderID, cm.SenderName, "}">>

Garbage == <<"not json">>

\* json.Unmarshal into a ChatMessage
Unmarshal(data) ==
    IF Len(data) = 5 /\ data[1] = "{" /\ data[5] = "}"
    THEN [ok |-> TRUE,
          cm |-> [Message |-> data[2], SenderID |-> data[3], SenderName |-> data[4]]]
    ELSE [ok |-> FALSE,
          cm |-> [Message |-> "", SenderID |-> "", SenderName |-> ""]]

\* payloads the remote peer can publish: its own messages, a message that
\* names this node as its sender, and bytes that are no JSON
PeerPayloads ==
    {Marshal([Message |-> "hi", SenderID |-> Pretty(PeerID), SenderName |-> "bob"]),
     Marshal([Message |-> "hi", SenderID |-> Pretty(SelfID), SenderName |-> "bob"]),
     Garbage}

\* -------------------------------------------------------------- JoinChatRoom
TopicName(roomname) == <<"room-peerchat-", roomname>>

ResolveUser(username) == IF username = "" THEN defaultuser ELSE username

\* a constructor that takes the default user name for the room
ResolveRoomAsUser(roomname) == IF roomname = "" THEN defaultuser ELSE roomname

ResolveRoom(roomname) == IF roomname = "" THEN defaultroom ELSE roomname

\* the ChatRoom object JoinChatRoom builds, with both loops started
NewChatRoom(username, roomname) ==
    [RoomName |-> ResolveRoom(roomname),
     UserName |-> ResolveUser(username),
     SelfID |-> SelfID,
     pstopic |-> TopicName(roomname),
     Logs |-> logsMade,
     argUser |-> username,
     argRoom |-> roomname,
     psDone |-> FALSE,
     subCancelled |-> FALSE,
     topicClosed |-> FALSE,
     inClosed |-> FALSE,
     pubpc |-> "select",
     subpc |-> "next",
     subCm |-> <<>>,
     subq |-> <<>>,
     exits |-> 0]

\* ps.Join fails when the router already holds a handle of that topic, and
\* may fail for reasons of the substrate; topic.Subscribe may fail as well
JoinOutcomes(roomname) ==
    IF TopicName(roomname) \in psTopics THEN {"joinerr"}
    ELSE {"ok", "joinerr", "suberr"}

JoinChatRoom(username, roomname, outcome) ==
    /\ outcome \in JoinOutcomes(roomname)
    /\ chatrooms' = IF outcome = "ok"
                    THEN Append(chatrooms, NewChatRoom(username, roomname))
                    ELSE chatrooms
    /\ psTopics' = IF outcome = "joinerr" THEN psTopics
                   ELSE psTopics \cup {TopicName(roomname)}

\* ------------------------------------------------------------------- Init
\* the bootstrap peers, and the peers discovery can yield (the host included)
Seeds == 1..MaxSeeds
DiscPeers == {SelfID, PeerID, "late"}

\* Bootstrap not yet called; reach is the set of seeds whose Connect succeeds
BootIdle(reach) ==
    [pc |-> "start", reach |-> reach, next |-> 1, wg |-> 0,
     go |-> [i \in Seeds |-> [pc |-> "idle", tmp |-> 0]],
     connectedbootpeers |-> 0, totalbootpeers |-> 0, report |-> <<>>]

\* Connect not yet called; advertising is the set of peers that advertise
DiscIdle ==
    [pc |-> "start", open |-> FALSE, advertising |-> {SelfID}, yielded |-> {},
     looppc |-> "off", peer |-> "", attempts |-> [p \in DiscPeers |-> 0],
     failed |-> FALSE]

\* the ChatRoom of the revision with terminator queues, as its JoinChatRoom
\* returns it: the topic is joined under the name given, both loops started
RoomJoined(roomname) ==
    [RoomName |-> ResolveRoom(roomname),
     pstopic |-> roomname,
     subscription |-> 1,
     cancelled |-> {},
     joined |-> {roomname},
     subq |-> 0,
     pubs |-> <<"select">>,
     subs |-> <<"top">>,
     updpc |-> "idle",
     arg |-> "",
     ret |-> "none",
     was |-> [RoomName |-> "", pstopic |-> "", subscription |-> 0],
     callsLeft |-> MaxUpdates,
     eventsLeft |-> MaxInputs,
     pubd |-> {},
     closes |-> 0]

\* the tokens lines are made of
InputTokens == {"/", " ", "quit", "room", "hi"}

\* the input field after Enter on the given line, in the given revision of NewUI
Entered(rev, line) == [rev |-> rev, line |-> line, pc |-> "enter",
                       dispatched |-> 0, submitted |-> 0, stopped |-> FALSE]

TypedIdle == Entered("part_003", <<>>)

\* the multihash code of SHA2-256, the size of its digest, the CID codec
SHA2_256 == 18
DigestSize == 32
CidCodec == 12

\* the letters service names are made of
ServiceBytes == {109, 47}

\* no identifier computed yet
NoCid == [version |-> 0, codec |-> 0, hash |-> <<>>]

\* a node before Connect2 or Provide has run, built with the given service name
AdvNode(name) == [service |-> name, connect2 |-> NoCid, provide |-> NoCid,
                  fatal |-> FALSE]

\* const service = "manishmeganathan/peerchat", cut to two of its letters
ServiceName == <<109, 47>>

Nodes == {SelfID, PeerID}

AdvIdle == [n \in Nodes |-> AdvNode(ServiceName)]

IdleHandler == [pc |-> "idle", arg |-> "", old |-> 0, new |-> 0, logs |-> 0,
                failed |-> FALSE]

Init ==
    /\ room = RoomJoined("")
    /\ typed = TypedIdle
    /\ adv = AdvIdle
    /\ boot = BootIdle({})
    /\ disc = DiscIdle
    /\ logsMade \in BOOLEAN
    /\ flags \in Flags
    /\ mainpc = "start"
    /\ chatrooms = <<>>
    /\ cur = 0
    /\ psTopics = {}
    /\ evpc = "off"
    /\ evSel = 0
    /\ evMsg = <<>>
    /\ handlers = [h \in Slots |-> IdleHandler]
    /\ inputsLeft = MaxInputs
    /\ shown = {}
    /\ published = {}

\* ------------------------------------------------------------------- main
\* main: JoinChatRoom with the flags (its error is dropped), NewUI, ui.Run.
\* NewUI reads cr.RoomName: with a nil ChatRoom the process panics.
Main ==
    /\ mainpc = "start"
    /\ \E outcome \in JoinOutcomes(flags.room) :
          /\ JoinChatRoom(flags.user, flags.room, outcome)
          /\ IF outcome = "ok"
             THEN /\ mainpc' = "running"
                  /\ cur' = 1
                  /\ evpc' = "select"
                  /\ evSel' = 1
             ELSE /\ mainpc' = "panicked"
                  /\ UNCHANGED <<cur, evpc, evSel>>
    /\ UNCHANGED <<layervars, logsMade, flags, evMsg, handlers, inputsLeft, shown,
                   published>>

Alive == mainpc \in {"running", "stopped"}

SetRoom(s, rec) == [chatrooms EXCEPT ![s] = rec]

\* ------------------------------------------------- NewUI: input.SetDoneFunc
HasPrefixSlash(line) == Len(line) > 0 /\ line[1] = "/"

\* strings.Split(line, " ")
RECURSIVE Split(_)
Split(line) ==
    IF \A i \in 1..Len(line) : line[i] # " " THEN <<line>>
    ELSE LET k == CHOOSE i \in 1..Len(line) :
                      line[i] = " " /\ \A j \in 1..(i - 1) : line[j] # " "
         IN <<SubSeq(line, 1, k - 1)>> \o Split(SubSeq(line, k + 1, Len(line)))

\* the uicommand the done function sends for a command line
CmdParts(line) ==
    LET parts == Split(line)
        padded == IF Len(parts) = 1 THEN Append(parts, <<>>) ELSE parts
    IN [cmdtype |-> padded[1], cmdarg |-> padded[2]]

\* a one-word token sequence as the string it spells
Str(tokens) == IF tokens = <<>> THEN "" ELSE tokens[1]

\* ------------------------------------------------------ ChatRoom.PubLoop
\* a PubLoop that stamps the room name where the user name belongs
StampRoom(cr, message) ==
    [Message |-> message, SenderID |-> Pretty(cr.SelfID), SenderName |-> cr.RoomName]

\* the ChatMessage PubLoop builds for a line taken from the publish queue
Stamp(cr, message) ==
    [Message |-> message, SenderID |-> Pretty(cr.SelfID), SenderName |-> cr.UserName]

\* pstopic.Publish: fails on a closed topic, and may fail in the substrate
PublishOutcomes(cr) == IF cr.topicClosed THEN {"err"} ELSE {"ok", "err"}

\* the router hands a published message to the node's own subscription of the
\* topic, marked as received from the node itself; a full buffer drops it
Echo(cr, data) ==
    IF cr.subCancelled \/ Len(cr.subq) >= MaxSubQ THEN cr.subq
    ELSE Append(cr.subq, [ReceivedFrom |-> SelfID, Data |-> data, origin |-> "self"])

\* a publish that overtakes the records published before it
NextOffsetFirst(pub) == 0

\* Publish is called, and returns, before PubLoop takes the next line: the
\* record follows every record this node has published so far
NextOffset(pub) == Cardinality(pub) + 1

\* PubLoop's second select case, joint with the event loop's send on
\* ui.Outbound: the line is stamped, marshalled (json.Marshal of three strings
\* cannot fail) and published; a failed publish goes on to the log send.
PubLoopPublish(s, outcome) ==
    LET cr == chatrooms[s]
        m == Stamp(cr, Str(evMsg.line))
        data == Marshal(m)
    IN /\ cr.pubpc = "select"
       /\ outcome \in PublishOutcomes(cr)
       /\ IF outcome = "ok"
          THEN /\ chatrooms' = SetRoom(s, [cr EXCEPT !.subq = Echo(cr, data)])
               /\ published' = published \cup
                     {[sess |-> s, topic |-> cr.pstopic, line |-> Str(evMsg.line),
                       user |-> cr.UserName, data |-> data, n |-> evMsg.n,
                       ord |-> NextOffset(published)]}
          ELSE /\ chatrooms' = SetRoom(s, [cr EXCEPT !.pubpc = "log"])
               /\ published' = published

\* PubLoop's first select case: the session's context is done
PubLoopDone(s) ==
    /\ Alive
    /\ s \in Sessions
    /\ chatrooms[s].pubpc = "select"
    /\ chatrooms[s].psDone
    /\ chatrooms' = SetRoom(s, [chatrooms[s] EXCEPT !.pubpc = "done"])
    /\ UNCHANGED <<layervars, logsMade, flags, mainpc, cur, psTopics, evpc, evSel, evMsg,
                   handlers, inputsLeft, shown, published>>

\* ------------------------------------------------------ ChatRoom.SubLoop
\* "Check if message is from self"
FromSelf(selfid, message) == message.ReceivedFrom = selfid

\* where SubLoop stands once an iteration has ended: the select at the top
\* of the loop returns when the context is done ("top"), and otherwise falls
\* into subscription.Next ("next")
SubLoopTop(cr) == IF cr.psDone THEN "top" ELSE "next"

\* what SubLoop does with one message of the subscription
SubLoopHandle(selfid, message) ==
    IF FromSelf(selfid, message) THEN [do |-> "skip", cm |-> <<>>]
    ELSE IF ~Unmarshal(message.Data).ok THEN [do |-> "log", cm |-> <<>>]
    ELSE [do |-> "send", cm |-> Unmarshal(message.Data).cm]

\* subscription.Next returns the next buffered message
SubLoopNext(s) ==
    LET cr == chatrooms[s]
        message == Head(cr.subq)
        h == SubLoopHandle(cr.SelfID, message)
    IN /\ Alive
       /\ s \in Sessions
       /\ cr.subpc = "next"
       /\ cr.subq # <<>>
       /\ chatrooms' = SetRoom(s, [cr EXCEPT
              !.subq = Tail(cr.subq),
              !.subpc = CASE h.do = "skip" -> SubLoopTop(cr)
                          [] h.do = "log" -> "log"
                          [] OTHER -> "send",
              !.subCm = IF h.do = "send"
                        THEN [cm |-> h.cm, origin |-> message.origin]
                        ELSE <<>>])
       /\ UNCHANGED <<layervars, logsMade, flags, mainpc, cur, psTopics, evpc, evSel, evMsg,
                      handlers, inputsLeft, shown, published>>

\* subscription.Next returns an error: the subscription was cancelled and its
\* buffer is drained, or the context is done.  SubLoop closes the inbound
\* queue and goes on to the log send.
SubLoopClosed(s) ==
    LET cr == chatrooms[s]
    IN /\ Alive
       /\ s \in Sessions
       /\ cr.subpc = "next"
       /\ (cr.subCancelled /\ cr.subq = <<>>) \/ cr.psDone
       /\ chatrooms' = SetRoom(s, [cr EXCEPT !.inClosed = TRUE, !.subpc = "closedlog"])
       /\ UNCHANGED <<layervars, logsMade, flags, mainpc, cur, psTopics, evpc, evSel, evMsg,
                      handlers, inputsLeft, shown, published>>

\* the select at the top of SubLoop finds the context done
SubLoopDone(s) ==
    LET cr == chatrooms[s]
    IN /\ Alive
       /\ s \in Sessions
       /\ cr.subpc = "top"
       /\ chatrooms' = SetRoom(s, [cr EXCEPT !.subpc = "done"])
       /\ UNCHANGED <<layervars, logsMade, flags, mainpc, cur, psTopics, evpc, evSel, evMsg,
                      handlers, inputsLeft, shown, published>>

\* ----------------------------------------------------- UI.starteventhandler
\* every case of the select ends the iteration: the next select is entered
\* and reads ui.ChatRoom again
NextSelect == /\ evpc' = "select"
              /\ evSel' = cur
              /\ evMsg' = <<>>

\* case msg := <-ui.MsgInputs: the done function sends a line that is not
\* empty and is no command; the event loop goes on to send it on ui.Outbound
EvMsgInput(line) ==
    /\ mainpc = "running"
    /\ evpc = "select"
    /\ inputsLeft > 0
    /\ Len(line) # 0
    /\ ~HasPrefixSlash(line)
    /\ inputsLeft' = inputsLeft - 1
    /\ evpc' = "sendOut"
    /\ evSel' = cur
    /\ evMsg' = [line |-> line, n |-> MaxInputs - inputsLeft + 1]
    /\ UNCHANGED <<layervars, logsMade, flags, mainpc, chatrooms, cur, psTopics, handlers,
                   shown, published>>

\* ui.Outbound <- msg, received by the PubLoop of that session
EvSendOut(outcome) ==
    /\ Alive
    /\ evpc = "sendOut"
    /\ PubLoopPublish(evSel, outcome)
    /\ NextSelect
    /\ UNCHANGED <<layervars, logsMade, flags, mainpc, cur, psTopics, handlers,
                   inputsLeft, shown>>

FreeSlot(h) == /\ handlers[h].pc = "idle"
               /\ \A g \in Slots : g < h => handlers[g].pc # "idle"

\* the switch of handlecommand on cmd.cmdtype and cmd.cmdarg: the case the
\* handler takes
Dispatch(cmd) ==
    CASE cmd.cmdtype = <<"/", "quit">> -> "quit"
      [] cmd.cmdtype = <<"/", "clear">> -> "clear"
      [] cmd.cmdtype = <<"/", "room">> -> IF cmd.cmdarg = <<>> THEN "badcmd" ELSE "room"
      [] cmd.cmdtype = <<"/", "user">> -> IF cmd.cmdarg = <<>> THEN "badcmd" ELSE "user"
      [] OTHER -> "badcmd"

\* case cmd := <-ui.CmdInputs: go ui.handlecommand(cmd).  The done function
\* sends a line that starts with "/" as a command; the new goroutine is put at
\* the case its switch selects.
EvCmdInput(line, h) ==
    LET cmd == CmdParts(line)
        case == Dispatch(cmd)
    IN /\ mainpc = "running"
       /\ evpc = "select"
       /\ Len(line) # 0
       /\ HasPrefixSlash(line)
       /\ FreeSlot(h)
       /\ inputsLeft > 0
       /\ inputsLeft' = inputsLeft - 1
       /\ handlers' = [handlers EXCEPT ![h] =
             [@ EXCEPT !.pc = case,
                       !.arg = IF case \in {"room", "user"} THEN Str(cmd.cmdarg) ELSE ""]]
       /\ NextSelect
       /\ UNCHANGED <<layervars, logsMade, flags, mainpc, chatrooms, cur, psTopics, shown,
                      published>>

\* case msg := <-ui.Inbound, joint with SubLoop's send of the ChatMessage
EvInbound ==
    LET cr == chatrooms[evSel]
    IN /\ Alive
       /\ evpc = "select"
       /\ cr.subpc = "send"
       /\ chatrooms' = SetRoom(evSel, [cr EXCEPT !.subpc = SubLoopTop(cr), !.subCm = <<>>])
       /\ NextSelect
       /\ UNCHANGED <<layervars, logsMade, flags, mainpc, cur, psTopics, handlers,
                      inputsLeft, shown, published>>

\* the value a receive from a closed queue yields
ZeroChatMessage == [Message |-> "", SenderID |-> "", SenderName |-> ""]

\* a display function that takes the message by reference and panics on nil
display_chatmessage_deref(msg) == IF msg = ZeroChatMessage THEN "panic" ELSE "shown"

\* display_chatmessage takes the message by value and formats its two strings
display_chatmessage(msg) == "shown"

\* case msg := <-ui.Inbound on a closed queue: the zero message is displayed
EvInboundClosed ==
    /\ Alive
    /\ evpc = "select"
    /\ chatrooms[evSel].inClosed
    /\ IF display_chatmessage(ZeroChatMessage) = "shown"
       THEN /\ NextSelect
            /\ UNCHANGED mainpc
       ELSE /\ mainpc' = "crashed"
            /\ UNCHANGED <<evpc, evSel, evMsg>>
    /\ UNCHANGED <<layervars, logsMade, flags, chatrooms, cur, psTopics, handlers,
                   inputsLeft, shown, published>>

Display(prefix) == shown' = shown \cup {prefix}

\* case log := <-ui.Logs, joint with PubLoop's send of a "puberr" entry
EvLogPub ==
    LET cr == chatrooms[evSel]
    IN /\ Alive
       /\ evpc = "select"
       /\ cr.Logs
       /\ cr.pubpc = "log"
       /\ chatrooms' = SetRoom(evSel, [cr EXCEPT !.pubpc = "select"])
       /\ Display("puberr")
       /\ NextSelect
       /\ UNCHANGED <<layervars, logsMade, flags, mainpc, cur, psTopics, handlers,
                      inputsLeft, published>>

\* a SubLoop that went on after each of its log sends
AfterLogSendContinue(cr) == SubLoopTop(cr)

\* where SubLoop goes after its send on cr.Logs: after a failed unmarshal the
\* loop continues, after a closed subscription it returns
AfterLogSend(cr) == IF cr.subpc = "log" THEN SubLoopTop(cr) ELSE "done"

\* case log := <-ui.Logs, joint with SubLoop's send of a "suberr" entry
EvLogSub ==
    LET cr == chatrooms[evSel]
    IN /\ Alive
       /\ evpc = "select"
       /\ cr.Logs
       /\ cr.subpc \in {"log", "closedlog"}
       /\ chatrooms' = SetRoom(evSel,
              [cr EXCEPT !.subpc = AfterLogSend(cr)])
       /\ Display("suberr")
       /\ NextSelect
       /\ UNCHANGED <<layervars, logsMade, flags, mainpc, cur, psTopics, handlers,
                      inputsLeft, published>>

\* case <-refreshticker.C: syncpeerbox
EvTick ==
    /\ Alive
    /\ evpc = "select"
    /\ NextSelect
    /\ UNCHANGED <<layervars, logsMade, flags, mainpc, chatrooms, cur, psTopics, handlers,
                   inputsLeft, shown, published>>

\* case <-ui.psctx.Done(): the event loop returns
EvDone ==
    /\ Alive
    /\ evpc = "select"
    /\ chatrooms[evSel].psDone
    /\ evpc' = "done"
    /\ UNCHANGED <<layervars, logsMade, flags, mainpc, chatrooms, cur, psTopics, evSel, evMsg,
                   handlers, inputsLeft, shown, published>>

\* --------------------------------------------------------- UI.handlecommand
Running(h) == Alive /\ h \in Slots

\* a handler that returned keeps only what it did
Finish(hr) == [hr EXCEPT !.pc = "done", !.arg = "", !.logs = 0]

\* case "/quit": ui.TerminalApp.Stop()
HQuit(h) ==
    /\ Running(h)
    /\ handlers[h].pc = "quit"
    /\ mainpc' = "stopped"
    /\ handlers' = [handlers EXCEPT ![h] = Finish(@)]
    /\ UNCHANGED <<layervars, logsMade, flags, chatrooms, cur, psTopics, evpc, evSel, evMsg,
                   inputsLeft, shown, published>>

\* case "/clear": ui.messageBox.Clear()
HClear(h) ==
    /\ Running(h)
    /\ handlers[h].pc = "clear"
    /\ handlers' = [handlers EXCEPT ![h] = Finish(@)]
    /\ UNCHANGED <<layervars, logsMade, flags, mainpc, chatrooms, cur, psTopics, evpc, evSel,
                   evMsg, inputsLeft, shown, published>>

\* /room and /user without an argument, and the default case: the handler
\* reaches its send of a "badcmd" entry on ui.Logs, a channel it reads from
\* ui.ChatRoom
HBadCmd(h) ==
    /\ Running(h)
    /\ handlers[h].pc = "badcmd"
    /\ handlers' = [handlers EXCEPT ![h] = [@ EXCEPT !.pc = "badlog", !.logs = cur]]
    /\ UNCHANGED <<layervars, logsMade, flags, mainpc, chatrooms, cur, psTopics, evpc, evSel,
                   evMsg, inputsLeft, shown, published>>

\* case "/room" with an argument: the "roomchange" entry is sent first
HRoom(h) ==
    /\ Running(h)
    /\ handlers[h].pc = "room"
    /\ handlers' = [handlers EXCEPT ![h] = [@ EXCEPT !.pc = "roomlog", !.logs = cur]]
    /\ UNCHANGED <<layervars, logsMade, flags, mainpc, chatrooms, cur, psTopics, evpc, evSel,
                   evMsg, inputsLeft, shown, published>>

\* ChatRoom.UpdateUser
UpdateUser(cr, username) == [cr EXCEPT !.UserName = username]

\* case "/user" with an argument: ui.UpdateUser(cmd.cmdarg)
HUser(h) ==
    /\ Running(h)
    /\ handlers[h].pc = "user"
    /\ chatrooms' = SetRoom(cur, UpdateUser(chatrooms[cur], handlers[h].arg))
    /\ handlers' = [handlers EXCEPT ![h] = Finish(@)]
    /\ UNCHANGED <<layervars, logsMade, flags, mainpc, cur, psTopics, evpc, evSel, evMsg,
                   inputsLeft, shown, published>>

\* where handlecommand goes after each of its sends on ui.Logs
AfterRoomLog == "join"

\* a handler that logs the join error and, lacking the return, goes on
AfterJumpErrNoReturn == "swap"

AfterJumpErr == "done"
AfterBadCmd == "done"

LogPrefix(pc) == CASE pc = "roomlog" -> "roomchange"
                   [] pc = "jumperr" -> "jumperr"
                   [] OTHER -> "badcmd"

\* case log := <-ui.Logs, joint with a handler's send
EvLogHandler(h) ==
    LET hr == handlers[h]
        next == CASE hr.pc = "roomlog" -> AfterRoomLog
                  [] hr.pc = "jumperr" -> AfterJumpErr
                  [] OTHER -> AfterBadCmd
    IN /\ Running(h)
       /\ evpc = "select"
       /\ hr.pc \in {"roomlog", "jumperr", "badlog"}
       /\ hr.logs = evSel
       /\ chatrooms[evSel].Logs
       /\ Display(LogPrefix(hr.pc))
       /\ handlers' = [handlers EXCEPT ![h] =
             IF next = "done" THEN Finish(hr) ELSE [hr EXCEPT !.pc = next, !.logs = 0]]
       /\ NextSelect
       /\ UNCHANGED <<layervars, logsMade, flags, mainpc, chatrooms, cur, psTopics,
                      inputsLeft, published>>

\* oldchatroom := ui.ChatRoom; newchatroom, err := JoinChatRoom(ui.Host,
\* ui.UserName, cmd.cmdarg).  On an error the handler goes on to send the
\* "jumperr" entry.
HJoin(h, outcome) ==
    LET hr == handlers[h]
    IN /\ Running(h)
       /\ hr.pc = "join"
       /\ JoinChatRoom(chatrooms[cur].UserName, hr.arg, outcome)
       /\ handlers' = [handlers EXCEPT ![h] =
             IF outcome = "ok"
             THEN [hr EXCEPT !.pc = "swap", !.old = cur, !.new = Len(chatrooms) + 1]
             ELSE [hr EXCEPT !.pc = "jumperr", !.old = cur, !.failed = TRUE,
                             !.logs = cur]]
       /\ UNCHANGED <<layervars, logsMade, flags, mainpc, cur, evpc, evSel, evMsg,
                      inputsLeft, shown, published>>

\* ui.ChatRoom = newchatroom, followed by the one-second sleep
HSwap(h) ==
    /\ Running(h)
    /\ handlers[h].pc = "swap"
    /\ cur' = handlers[h].new
    /\ handlers' = [handlers EXCEPT ![h] = [@ EXCEPT !.pc = "exit"]]
    /\ UNCHANGED <<layervars, logsMade, flags, mainpc, chatrooms, psTopics, evpc, evSel, evMsg,
                   inputsLeft, shown, published>>

\* a handler that calls Exit on the session it has just made current
ExitTargetNew(hr) == hr.new

\* the session handlecommand calls Exit on
ExitTarget(hr) == hr.old

\* ChatRoom.Exit, first part: subscription.Cancel() and pstopic.Close()
HExitClose(h) ==
    LET s == ExitTarget(handlers[h])
        cr == chatrooms[s]
    IN /\ Running(h)
       /\ handlers[h].pc = "exit"
       /\ chatrooms' = SetRoom(s, [cr EXCEPT !.subCancelled = TRUE,
                                             !.topicClosed = TRUE,
                                             !.exits = @ + 1])
       /\ psTopics' = IF cr.topicClosed THEN psTopics ELSE psTopics \ {cr.pstopic}
       /\ handlers' = [handlers EXCEPT ![h] = [@ EXCEPT !.pc = "cancel"]]
       /\ UNCHANGED <<layervars, logsMade, flags, mainpc, cur, evpc, evSel, evMsg,
                      inputsLeft, shown, published>>

\* ChatRoom.Exit, the deferred cr.pscancel(); then the message box is cleared
\* and retitled and the handler returns
HExitCancel(h) ==
    LET s == ExitTarget(handlers[h])
    IN /\ Running(h)
       /\ handlers[h].pc = "cancel"
       /\ chatrooms' = SetRoom(s, [chatrooms[s] EXCEPT !.psDone = TRUE])
       /\ handlers' = [handlers EXCEPT ![h] = Finish(@)]
       /\ UNCHANGED <<layervars, logsMade, flags, mainpc, cur, psTopics, evpc, evSel, evMsg,
                      inputsLeft, shown, published>>

\* ------------------------------------------------------- UI.Run / UI.Close
\* TerminalApp.Run returns after Stop; the deferred ui.Close() cancels the
\* context of the current session; main returns and the process ends
MainClose ==
    /\ mainpc = "stopped"
    /\ mainpc' = "exited"
    /\ chatrooms' = SetRoom(cur, [chatrooms[cur] EXCEPT !.psDone = TRUE])
    /\ UNCHANGED <<layervars, logsMade, flags, cur, psTopics, evpc, evSel, evMsg, handlers,
                   inputsLeft, shown, published>>

\* ------------------------------------------------------------ the substrate
\* the remote peer publishes on a topic this node is subscribed to
NetDeliver(s, data) ==
    LET cr == chatrooms[s]
    IN /\ Alive
       /\ inputsLeft > 0
       /\ s \in Sessions
       /\ ~cr.subCancelled
       /\ Len(cr.subq) < MaxSubQ
       /\ inputsLeft' = inputsLeft - 1
       /\ chatrooms' = SetRoom(s, [cr EXCEPT !.subq = Append(@,
              [ReceivedFrom |-> PeerID, Data |-> data, origin |-> "peer"])])
       /\ UNCHANGED <<layervars, logsMade, flags, mainpc, cur, psTopics, evpc, evSel, evMsg,
                      handlers, shown, published>>

\* the network layer closes a subscription
NetCloseSub(s) ==
    LET cr == chatrooms[s]
    IN /\ Alive
       /\ s \in Sessions
       /\ ~cr.subCancelled
       /\ chatrooms' = SetRoom(s, [cr EXCEPT !.subCancelled = TRUE])
       /\ UNCHANGED <<layervars, logsMade, flags, mainpc, cur, psTopics, evpc, evSel, evMsg,
                      handlers, inputsLeft, shown, published>>

\* the remote peer runs the same SubLoop on its subscription of PeerRoom: what
\* it puts on its inbound queue for the records this node published there,
\* which reach it from this node
PeerInbound ==
    {[cm |-> SubLoopHandle(PeerID, [ReceivedFrom |-> SelfID, Data |-> p.data]).cm,
      pub |-> p] :
        p \in {q \in published :
                 /\ q.topic = TopicName(PeerRoom)
                 /\ SubLoopHandle(PeerID,
                        [ReceivedFrom |-> SelfID, Data |-> q.data]).do = "send"}}

\* ------------------------------------------------------------------- Next
Next ==
    \/ Main
    \/ MainClose
    \/ \E line \in MsgLines : EvMsgInput(line)
    \/ \E outcome \in {"ok", "err"} : EvSendOut(outcome)
    \/ \E line \in CmdLines, h \in Slots : EvCmdInput(line, h)
    \/ EvInbound
    \/ EvInboundClosed
    \/ EvLogPub
    \/ EvLogSub
    \/ EvTick
    \/ EvDone
    \/ \E h \in Slots : EvLogHandler(h)
    \/ \E h \in Slots : HQuit(h)
    \/ \E h \in Slots : HClear(h)
    \/ \E h \in Slots : HBadCmd(h)
    \/ \E h \in Slots : HRoom(h)
    \/ \E h \in Slots : HUser(h)
    \/ \E h \in Slots, outcome \in {"ok", "joinerr", "suberr"} : HJoin(h, outcome)
    \/ \E h \in Slots : HSwap(h)
    \/ \E h \in Slots : HExitClose(h)
    \/ \E h \in Slots : HExitCancel(h)
    \/ \E s \in Sessions : PubLoopDone(s)
    \/ \E s \in Sessions : SubLoopNext(s)
    \/ \E s \in Sessions : SubLoopClosed(s)
    \/ \E s \in Sessions : SubLoopDone(s)
    \/ \E s \in Sessions, data \in PeerPayloads : NetDeliver(s, data)
    \/ \E s \in Sessions : NetCloseSub(s)

Spec == Init /\ [][Next]_vars

\* ------------------------------------------- room switches that overlap
\* the user types two /room commands, for two rooms
SwitchLines == {<<"/", "room", " ", "r2">>, <<"/", "room", " ", "r3">>}

NextSwitch ==
    \/ Main
    \/ \E line \in SwitchLines, h \in Slots : EvCmdInput(line, h)
    \/ EvLogSub
    \/ EvTick
    \/ EvDone
    \/ \E h \in Slots : EvLogHandler(h)
    \/ \E h \in Slots : HRoom(h)
    \/ \E h \in Slots, outcome \in {"ok", "joinerr", "suberr"} : HJoin(h, outcome)
    \/ \E h \in Slots : HSwap(h)
    \/ \E h \in Slots : HExitClose(h)
    \/ \E h \in Slots : HExitCancel(h)
    \/ \E s \in Sessions : PubLoopDone(s)
    \/ \E s \in Sessions : SubLoopClosed(s)

SpecSwitch == Init /\ [][NextSwitch]_vars

\* JoinChatRoom alone, on a wider choice of arguments
JoinUsers == {"", "u1", "u2", "u3", "lobby"}
JoinRooms == {"", "r1", "r2", "newuser", "lobby"}

InitJoin ==
    /\ room = RoomJoined("")
    /\ typed = TypedIdle
    /\ adv = AdvIdle
    /\ boot = BootIdle({})
    /\ disc = DiscIdle
    /\ logsMade \in BOOLEAN
    /\ flags \in [user : JoinUsers, room : JoinRooms]
    /\ mainpc = "start"
    /\ chatrooms = <<>>
    /\ cur = 0
    /\ psTopics = {}
    /\ evpc = "off"
    /\ evSel = 0
    /\ evMsg = <<>>
    /\ handlers = [h \in Slots |-> IdleHandler]
    /\ inputsLeft = MaxInputs
    /\ shown = {}
    /\ published = {}

NextJoin == Main

SpecJoin == InitJoin /\ [][NextJoin]_vars

\* ------------------------------------------------------ P2PHost.Bootstrap
sessvars == <<logsMade, flags, mainpc, chatrooms, cur, psTopics, evpc, evSel, evMsg,
              handlers, inputsLeft, shown, published>>

chatvars == <<room, typed, sessvars>>

\* KadDHT.Bootstrap: an error is fatal (Fatalln), otherwise the loop over
\* dht.DefaultBootstrapPeers begins
BootstrapStart(outcome) ==
    /\ boot.pc = "start"
    /\ boot' = [boot EXCEPT !.pc = IF outcome = "err" THEN "fatal" ELSE "loop"]
    /\ UNCHANGED <<adv, disc, chatvars>>

\* one iteration of the loop: wg.Add(1) and go func(); after the last seed
\* main goes on to wg.Wait()
BootstrapSpawn ==
    /\ boot.pc = "loop"
    /\ boot' = [boot EXCEPT !.wg = @ + 1,
                            !.go[boot.next].pc = "connect",
                            !.next = @ + 1,
                            !.pc = IF boot.next = MaxSeeds THEN "wait" ELSE "loop"]
    /\ UNCHANGED <<adv, disc, chatvars>>

\* a goroutine that escalates a failed connection
ConnectBranchFatal(err) == IF err THEN "fatal" ELSE "rdC"

\* the branch a goroutine takes on the result of Host.Connect: on an error it
\* counts the total only, otherwise the connected count and then the total
ConnectBranch(err) == IF err THEN "rdT" ELSE "rdC"

\* Host.Connect returns in the goroutine of seed i
GoConnect(i) ==
    LET branch == ConnectBranch(i \notin boot.reach)
    IN /\ boot.pc \in {"loop", "wait"}
       /\ boot.go[i].pc = "connect"
       /\ boot' = IF branch = "fatal"
                  THEN [boot EXCEPT !.pc = "fatal"]
                  ELSE [boot EXCEPT !.go[i].pc = branch]
       /\ UNCHANGED <<adv, disc, chatvars>>

\* counter++ on a variable shared without synchronisation: the load ...
GoRead(i) ==
    LET g == boot.go[i]
    IN /\ boot.pc \in {"loop", "wait"}
       /\ g.pc \in {"rdC", "rdT"}
       /\ boot' = [boot EXCEPT !.go[i] =
             IF g.pc = "rdC" THEN [pc |-> "wrC", tmp |-> boot.connectedbootpeers]
             ELSE [pc |-> "wrT", tmp |-> boot.totalbootpeers]]
       /\ UNCHANGED <<adv, disc, chatvars>>

\* ... and the store; after the store of the total the goroutine returns and
\* its deferred wg.Done() runs
GoWrite(i) ==
    LET g == boot.go[i]
    IN /\ boot.pc \in {"loop", "wait"}
       /\ g.pc \in {"wrC", "wrT"}
       /\ boot' = IF g.pc = "wrC"
                  THEN [boot EXCEPT !.connectedbootpeers = g.tmp + 1,
                                    !.go[i] = [pc |-> "rdT", tmp |-> 0]]
                  ELSE [boot EXCEPT !.totalbootpeers = g.tmp + 1,
                                    !.go[i] = [pc |-> "done", tmp |-> 0],
                                    !.wg = @ - 1]
       /\ UNCHANGED <<adv, disc, chatvars>>

\* a Wait that returns at once
WaitReturnsAlways(wg) == TRUE

\* wg.Wait() returns when the counter is zero
WaitReturns(wg) == wg = 0

\* wg.Wait() has returned: the counts are logged
BootstrapWait ==
    /\ boot.pc = "wait"
    /\ WaitReturns(boot.wg)
    /\ boot' = [boot EXCEPT !.pc = "reported",
                            !.report = <<boot.connectedbootpeers, boot.totalbootpeers>>]
    /\ UNCHANGED <<adv, disc, chatvars>>

\* ------------------------------------------------------------- P2P.Connect
\* "Ignore if the discovered peer is the host itself"
IsSelf(peer) == peer = SelfID

\* a loop that gives up on the first failed connection
AfterConnectStop(outcome) == IF outcome = "err" THEN "done" ELSE "recv"

\* Host.Connect's result is dropped: the loop goes on to the next peer
AfterConnect(outcome) == "recv"

\* Advertise (its error is dropped), the sleep, and FindPeers: an error of
\* FindPeers is fatal, otherwise the goroutine that ranges over the peer
\* channel is started
ConnectStart(outcome) ==
    /\ boot.pc = "reported"
    /\ disc.pc = "start"
    /\ disc' = IF outcome = "err"
               THEN [disc EXCEPT !.pc = "fatal"]
               ELSE [disc EXCEPT !.pc = "running", !.open = TRUE, !.looppc = "recv"]
    /\ UNCHANGED <<adv, boot, chatvars>>

\* a peer of the network starts to advertise the service
PeerAdvertise(p) ==
    /\ boot.pc # "fatal"
    /\ disc.pc # "fatal"
    /\ p \notin disc.advertising
    /\ disc' = [disc EXCEPT !.advertising = @ \cup {p}]
    /\ UNCHANGED <<adv, boot, chatvars>>

\* the query behind FindPeers yields a provider on the peer channel and the
\* loop receives it: the host itself is skipped, any other peer is connected to
DiscoverPeer(p) ==
    /\ disc.pc = "running"
    /\ disc.open
    /\ disc.looppc = "recv"
    /\ p \in disc.advertising \ disc.yielded
    /\ disc' = IF IsSelf(p)
               THEN [disc EXCEPT !.yielded = @ \cup {p}]
               ELSE [disc EXCEPT !.yielded = @ \cup {p}, !.looppc = "connect",
                                 !.peer = p]
    /\ UNCHANGED <<adv, boot, chatvars>>

\* p2p.Host.Connect(context.Background(), peer) returns
DiscoverConnect(outcome) ==
    /\ disc.pc = "running"
    /\ disc.looppc = "connect"
    /\ disc' = [disc EXCEPT !.attempts[disc.peer] = @ + 1,
                            !.failed = @ \/ outcome = "err",
                            !.peer = "",
                            !.looppc = AfterConnect(outcome)]
    /\ UNCHANGED <<adv, boot, chatvars>>

\* the query behind FindPeers is finished, every peer that advertises by now
\* having been yielded: the peer channel is closed
FindPeersDone ==
    /\ disc.pc = "running"
    /\ disc.open
    /\ disc.advertising \subseteq disc.yielded
    /\ disc' = [disc EXCEPT !.open = FALSE]
    /\ UNCHANGED <<adv, boot, chatvars>>

\* range over the closed peer channel ends: the goroutine returns
DiscoverLoopEnd ==
    /\ disc.pc = "running"
    /\ ~disc.open
    /\ disc.looppc = "recv"
    /\ disc' = [disc EXCEPT !.looppc = "done"]
    /\ UNCHANGED <<adv, boot, chatvars>>

InitP2P ==
    /\ room = RoomJoined("")
    /\ typed = TypedIdle
    /\ adv = AdvIdle
    /\ boot \in {BootIdle(reach) : reach \in SUBSET Seeds}
    /\ disc = DiscIdle
    /\ logsMade = FALSE
    /\ flags = [user |-> "", room |-> ""]
    /\ mainpc = "start"
    /\ chatrooms = <<>>
    /\ cur = 0
    /\ psTopics = {}
    /\ evpc = "off"
    /\ evSel = 0
    /\ evMsg = <<>>
    /\ handlers = [h \in Slots |-> IdleHandler]
    /\ inputsLeft = MaxInputs
    /\ shown = {}
    /\ published = {}

NextP2P ==
    \/ \E outcome \in {"ok", "err"} : BootstrapStart(outcome)
    \/ BootstrapSpawn
    \/ \E i \in Seeds : GoConnect(i)
    \/ \E i \in Seeds : GoRead(i)
    \/ \E i \in Seeds : GoWrite(i)
    \/ BootstrapWait
    \/ \E outcome \in {"ok", "err"} : ConnectStart(outcome)
    \/ \E p \in DiscPeers : PeerAdvertise(p)
    \/ \E p \in DiscPeers : DiscoverPeer(p)
    \/ \E outcome \in {"ok", "err"} : DiscoverConnect(outcome)
    \/ FindPeersDone
    \/ DiscoverLoopEnd

SpecP2P == InitP2P /\ [][NextP2P]_vars

\* ----------------------------------- the service identifier: Connect2, Provide
\* sha256.Sum256, the library hash, by a stand-in of the same shape: a fixed
\* function of the bytes alone to a digest of DigestSize bytes
RECURSIVE Absorb(_, _)
Absorb(h, bytes) ==
    IF bytes = <<>> THEN h
    ELSE Absorb((h * 31 + Head(bytes) + 1) % 65536, Tail(bytes))

Sum256(bytes) ==
    LET h == Absorb(7 + Len(bytes), bytes)
    IN [i \in 1..DigestSize |-> (h * i + i * i) % 256]

\* numbers as digit sequences, most significant digit first
RECURSIVE Strip(_)
Strip(num) == IF num # <<>> /\ Head(num) = 0 THEN Strip(Tail(num)) ELSE num

LeadingZeros(num) == Len(num) - Len(Strip(num))

\* num, in base from, divided by to: quotient q and remainder r
RECURSIVE LongDiv(_, _, _, _, _)
LongDiv(num, from, to, q, r) ==
    IF num = <<>> THEN [q |-> q, r |-> r]
    ELSE LET acc == r * from + Head(num)
         IN LongDiv(Tail(num), from, to, Append(q, acc \div to), acc % to)

RECURSIVE Convert(_, _, _)
Convert(num, from, to) ==
    IF Strip(num) = <<>> THEN <<>>
    ELSE LET dm == LongDiv(Strip(num), from, to, <<>>, 0)
         IN Append(Convert(dm.q, from, to), dm.r)

\* base58.Encode: a character is its index in the alphabet, "1" being 0; each
\* leading zero byte is one leading "1"
Encode(bytes) ==
    [i \in 1..LeadingZeros(bytes) |-> 0] \o Convert(bytes, 256, 58)

\* base58 decoding, the first half of multihash.FromB58String
Decode(str) ==
    [i \in 1..LeadingZeros(str) |-> 0] \o Convert(str, 58, 256)

\* multihash.FromB58String: the decoded bytes are a multihash when they are
\* a known hash code, a length and a digest of that length
FromB58String(str) ==
    LET b == Decode(str)
        ok == Len(b) >= 2 /\ b[1] = SHA2_256 /\ b[2] = Len(b) - 2
    IN [err |-> ~ok, mulhash |-> IF ok THEN b ELSE <<>>]

\* cid.NewCidV1
NewCidV1(codec, mulhash) == [version |-> 1, codec |-> codec, hash |-> mulhash]

\* a node whose identifier also depends on who computes it
HostServiceSalted(n) == adv[n].service \o (IF n = SelfID THEN <<1>> ELSE <<2>>)

\* []byte(service), []byte(serviceCID): the name compiled into node n
HostService(n) == adv[n].service

\* the identifier both methods compute, or the fatal log
ServiceCid(n) ==
    LET hash == Sum256(HostService(n))
        finalhash == <<SHA2_256, DigestSize>> \o hash
        b58string == Encode(finalhash)
        mh == FromB58String(b58string)
    IN [err |-> mh.err, cidvalue |-> NewCidV1(CidCodec, mh.mulhash)]

\* P2P.Connect2, up to cidvalue
Connect2(n) ==
    /\ ~adv[n].fatal
    /\ adv[n].connect2 = NoCid
    /\ LET c == ServiceCid(n)
       IN adv' = [adv EXCEPT ![n] =
             IF c.err THEN [@ EXCEPT !.fatal = TRUE]
             ELSE [@ EXCEPT !.connect2 = c.cidvalue]]
    /\ UNCHANGED <<boot, disc, chatvars>>

\* P2PHost.Provide, up to cidvalue
Provide(n) ==
    /\ ~adv[n].fatal
    /\ adv[n].provide = NoCid
    /\ LET c == ServiceCid(n)
       IN adv' = [adv EXCEPT ![n] =
             IF c.err THEN [@ EXCEPT !.fatal = TRUE]
             ELSE [@ EXCEPT !.provide = c.cidvalue]]
    /\ UNCHANGED <<boot, disc, chatvars>>

\* the service names two builds may carry: byte strings of up to
\* MaxServiceLen letters
RECURSIVE NamesOfLen(_)
NamesOfLen(k) ==
    IF k = 0 THEN {<<>>}
    ELSE {Append(w, b) : w \in NamesOfLen(k - 1), b \in ServiceBytes}

ServiceNames == UNION {NamesOfLen(k) : k \in 0..MaxServiceLen}

InitCid ==
    /\ room = RoomJoined("")
    /\ typed = TypedIdle
    /\ adv \in [Nodes -> {AdvNode(name) : name \in ServiceNames}]
    /\ boot = BootIdle({})
    /\ disc = DiscIdle
    /\ logsMade = FALSE
    /\ flags = [user |-> "", room |-> ""]
    /\ mainpc = "start"
    /\ chatrooms = <<>>
    /\ cur = 0
    /\ psTopics = {}
    /\ evpc = "off"
    /\ evSel = 0
    /\ evMsg = <<>>
    /\ handlers = [h \in Slots |-> IdleHandler]
    /\ inputsLeft = MaxInputs
    /\ shown = {}
    /\ published = {}

NextCid ==
    \/ \E n \in Nodes : Connect2(n)
    \/ \E n \in Nodes : Provide(n)

SpecCid == InitCid /\ [][NextCid]_vars

\* ------------------------------------------------- input.SetDoneFunc, alone
\* strings.HasPrefix(line, "/" + word)
HasPrefixCmd(line, word) == Len(line) >= 2 /\ line[1] = "/" /\ line[2] = word

\* where the done function of src/src/ui.go goes with a line: it returns, it
\* stops the application, it blocks for good on a send nobody receives
\* (syncchan, logchan), or it reaches its send on inputchan
EarlierBranch(line) ==
    IF Len(line) = 0 THEN "done"
    ELSE IF ~HasPrefixSlash(line) THEN "sendInput"
    ELSE IF HasPrefixCmd(line, "quit") THEN "stop"
    ELSE IF HasPrefixCmd(line, "sync") THEN "blocked"
    ELSE IF HasPrefixCmd(line, "room") \/ HasPrefixCmd(line, "user") THEN "sendInput"
    ELSE "blocked"

\* the done function of src/src/ui.go
EarlierDoneFunc ==
    /\ typed.rev = "ui.go"
    /\ typed.pc = "enter"
    /\ LET branch == EarlierBranch(typed.line)
       IN typed' = IF branch = "stop"
                   THEN [typed EXCEPT !.pc = "done", !.stopped = TRUE,
                                      !.dispatched = @ + 1]
                   ELSE [typed EXCEPT !.pc = branch]
    /\ UNCHANGED <<room, adv, boot, disc, sessvars>>

\* src/src/ui.go, case input := <-ui.InputChan: ui.ChatRoom.Publish(input),
\* joint with the done function's send
EarlierPublish ==
    /\ typed.rev = "ui.go"
    /\ typed.pc = "sendInput"
    /\ typed' = [typed EXCEPT !.pc = "done", !.submitted = @ + 1]
    /\ UNCHANGED <<room, adv, boot, disc, sessvars>>

\* where the done function of part_003 goes with a line
DoneBranch(line) ==
    IF Len(line) = 0 THEN "done"
    ELSE IF HasPrefixSlash(line) THEN "sendCmd"
    ELSE "sendMsg"

\* the done function of part_003
DoneFunc ==
    /\ typed.rev = "part_003"
    /\ typed.pc = "enter"
    /\ typed' = [typed EXCEPT !.pc = DoneBranch(typed.line)]
    /\ UNCHANGED <<room, adv, boot, disc, sessvars>>

\* part_003, case cmd := <-ui.CmdInputs: go ui.handlecommand(cmd)
TypedCmd ==
    /\ typed.rev = "part_003"
    /\ typed.pc = "sendCmd"
    /\ typed' = [typed EXCEPT !.pc = "done", !.dispatched = @ + 1,
                              !.stopped = (Dispatch(CmdParts(typed.line)) = "quit")]
    /\ UNCHANGED <<room, adv, boot, disc, sessvars>>

\* part_003, case msg := <-ui.MsgInputs: ui.Outbound <- msg
TypedMsg ==
    /\ typed.rev = "part_003"
    /\ typed.pc = "sendMsg"
    /\ typed' = [typed EXCEPT !.pc = "done", !.submitted = @ + 1]
    /\ UNCHANGED <<room, adv, boot, disc, sessvars>>

\* what the user can enter: lines of up to MaxLineLen tokens
RECURSIVE LinesOfLen(_)
LinesOfLen(k) ==
    IF k = 0 THEN {<<>>}
    ELSE {Append(w, t) : w \in LinesOfLen(k - 1), t \in InputTokens}

InputLines == UNION {LinesOfLen(k) : k \in 0..MaxLineLen}

InitInput ==
    /\ room = RoomJoined("")
    /\ typed \in {Entered(rev, line) : rev \in {"ui.go", "part_003"}, line \in InputLines}
    /\ adv = AdvIdle
    /\ boot = BootIdle({})
    /\ disc = DiscIdle
    /\ logsMade = FALSE
    /\ flags = [user |-> "", room |-> ""]
    /\ mainpc = "start"
    /\ chatrooms = <<>>
    /\ cur = 0
    /\ psTopics = {}
    /\ evpc = "off"
    /\ evSel = 0
    /\ evMsg = <<>>
    /\ handlers = [h \in Slots |-> IdleHandler]
    /\ inputsLeft = MaxInputs
    /\ shown = {}
    /\ published = {}

NextInput ==
    \/ EarlierDoneFunc
    \/ EarlierPublish
    \/ DoneFunc
    \/ TypedCmd
    \/ TypedMsg

SpecInput == InitInput /\ [][NextInput]_vars

\* --------------------- ChatRoom with terminator queues: loops and UpdateRoom
PubLoops == 1..Len(room.pubs)
SubLoops == 1..Len(room.subs)
LivePubLoops == {i \in PubLoops : room.pubs[i] # "done"}
LiveSubLoops == {i \in SubLoops : room.subs[i] # "done"}

\* PubLoop, case message := <-cr.PublishQueue, joint with the sender of the
\* line: the record goes to the topic cr.pstopic designates now; a failed
\* publish takes the loop to its send on cr.Logs
TermPubLoopPublish(i, outcome) ==
    /\ i \in PubLoops
    /\ room.pubs[i] = "select"
    /\ room.eventsLeft > 0
    /\ room' = [room EXCEPT
          !.eventsLeft = @ - 1,
          !.pubs[i] = IF outcome = "ok" THEN "select" ELSE "log",
          !.pubd = IF outcome = "ok" THEN @ \cup {[loop |-> i, topic |-> room.pstopic]}
                   ELSE @]
    /\ UNCHANGED <<typed, adv, boot, disc, sessvars>>

\* PubLoop's send of a "puberr" entry, taken by a receiver when the Logs
\* channel exists
TermPubLoopLog(i) ==
    /\ i \in PubLoops
    /\ room.pubs[i] = "log"
    /\ logsMade
    /\ room' = [room EXCEPT !.pubs[i] = "select"]
    /\ UNCHANGED <<typed, adv, boot, disc, sessvars>>

\* SubLoop's select: with no sender waiting on SubTermQueue the default case
\* runs and the loop calls cr.subscription.Next
TermSubLoopDefault(i) ==
    /\ i \in SubLoops
    /\ room.subs[i] = "top"
    /\ room.updpc # "termSub"
    /\ room' = [room EXCEPT !.subs[i] = "next"]
    /\ UNCHANGED <<typed, adv, boot, disc, sessvars>>

\* Next returns a message: one of the node itself is skipped, one that does
\* not unmarshal is logged, any other is sent on cr.Messages
TermSubLoopNext(i, kind) ==
    /\ i \in SubLoops
    /\ room.subs[i] = "next"
    /\ room.subq > 0
    /\ room' = [room EXCEPT
          !.subq = @ - 1,
          !.subs[i] = CASE kind = "self" -> "top"
                        [] kind = "garbage" -> "log"
                        [] OTHER -> "send"]
    /\ UNCHANGED <<typed, adv, boot, disc, sessvars>>

\* cr.Messages <- cm, taken by the receiver of the queue
TermSubLoopSend(i) ==
    /\ i \in SubLoops
    /\ room.subs[i] = "send"
    /\ room' = [room EXCEPT !.subs[i] = "top"]
    /\ UNCHANGED <<typed, adv, boot, disc, sessvars>>

\* Next returns an error, which it does once the subscription is closed and
\* its buffer drained: SubLoop closes cr.Messages and goes on to the log send
TermSubLoopClosed(i) ==
    /\ i \in SubLoops
    /\ room.subs[i] = "next"
    /\ room.subscription \in room.cancelled
    /\ room.subq = 0
    /\ room' = [room EXCEPT !.closes = @ + 1, !.subs[i] = "closedlog"]
    /\ UNCHANGED <<typed, adv, boot, disc, sessvars>>

\* the send of the "subscription has closed" entry, after which SubLoop returns
TermSubLoopClosedLog(i) ==
    /\ i \in SubLoops
    /\ room.subs[i] = "closedlog"
    /\ logsMade
    /\ room' = [room EXCEPT !.subs[i] = "done"]
    /\ UNCHANGED <<typed, adv, boot, disc, sessvars>>

\* SubLoop's send of a "suberr" entry
TermSubLoopLog(i) ==
    /\ i \in SubLoops
    /\ room.subs[i] = "log"
    /\ logsMade
    /\ room' = [room EXCEPT !.subs[i] = "top"]
    /\ UNCHANGED <<typed, adv, boot, disc, sessvars>>

\* a message of the room arrives in the buffer of the subscription
TermDeliver ==
    /\ room.subscription \notin room.cancelled
    /\ room.subq < MaxSubQ
    /\ room.eventsLeft > 0
    /\ room' = [room EXCEPT !.subq = @ + 1, !.eventsLeft = @ - 1]
    /\ UNCHANGED <<typed, adv, boot, disc, sessvars>>

\* the network layer closes the subscription
TermNetCloseSub ==
    /\ room.subscription \notin room.cancelled
    /\ room' = [room EXCEPT !.cancelled = @ \cup {room.subscription}]
    /\ UNCHANGED <<typed, adv, boot, disc, sessvars>>

\* a caller enters UpdateRoom(roomname)
UpdateRoomCall(roomname) ==
    /\ room.updpc = "idle"
    /\ room.callsLeft > 0
    /\ room' = [room EXCEPT
          !.updpc = "termPub",
          !.arg = roomname,
          !.ret = "none",
          !.was = [RoomName |-> room.RoomName, pstopic |-> room.pstopic,
                   subscription |-> room.subscription],
          !.callsLeft = @ - 1]
    /\ UNCHANGED <<typed, adv, boot, disc, sessvars>>

\* cr.PubTermQueue <- struct{}{}, joint with a PubLoop at its select, which
\* returns
UpdateRoomPubTerm(i) ==
    /\ room.updpc = "termPub"
    /\ i \in PubLoops
    /\ room.pubs[i] = "select"
    /\ room' = [room EXCEPT !.updpc = "termSub", !.pubs[i] = "done"]
    /\ UNCHANGED <<typed, adv, boot, disc, sessvars>>

\* cr.SubTermQueue <- struct{}{}, joint with a SubLoop at its select, which
\* returns
UpdateRoomSubTerm(i) ==
    /\ room.updpc = "termSub"
    /\ i \in SubLoops
    /\ room.subs[i] = "top"
    /\ room' = [room EXCEPT !.updpc = "join", !.subs[i] = "done"]
    /\ UNCHANGED <<typed, adv, boot, disc, sessvars>>

\* psrouter.Join refuses a topic the router already holds a handle of
UpdateOutcomes ==
    IF room.arg \in room.joined THEN {"joinerr"} ELSE {"ok", "joinerr", "suberr"}

\* the rest of UpdateRoom: the subscription is cancelled, the new topic joined
\* and subscribed; on an error the call returns it, else the three fields are
\* assigned and the two loops started
UpdateRoomJoin(outcome) ==
    /\ room.updpc = "join"
    /\ outcome \in UpdateOutcomes
    /\ LET r == [room EXCEPT !.cancelled = @ \cup {room.subscription},
                             !.subq = 0,
                             !.updpc = "idle",
                             !.arg = ""]
       IN room' =
            IF outcome = "ok"
            THEN [r EXCEPT !.RoomName = room.arg,
                           !.pstopic = room.arg,
                           !.subscription = @ + 1,
                           !.joined = @ \cup {room.arg},
                           !.pubs = Append(@, "select"),
                           !.subs = Append(@, "top"),
                           !.ret = "ok"]
            ELSE [r EXCEPT !.joined = IF outcome = "suberr" THEN @ \cup {room.arg}
                                     ELSE @,
                           !.ret = "err"]
    /\ UNCHANGED <<typed, adv, boot, disc, sessvars>>

\* the rooms UpdateRoom is called with
UpdateRooms == {"r1", "r2"}

InitUpdateRoom ==
    /\ room = RoomJoined("r1")
    /\ typed = TypedIdle
    /\ adv = AdvIdle
    /\ boot = BootIdle({})
    /\ disc = DiscIdle
    /\ logsMade \in BOOLEAN
    /\ flags = [user |-> "", room |-> ""]
    /\ mainpc = "start"
    /\ chatrooms = <<>>
    /\ cur = 0
    /\ psTopics = {}
    /\ evpc = "off"
    /\ evSel = 0
    /\ evMsg = <<>>
    /\ handlers = [h \in Slots |-> IdleHandler]
    /\ inputsLeft = MaxInputs
    /\ shown = {}
    /\ published = {}

NextUpdateRoom ==
    \/ \E i \in PubLoops, outcome \in {"ok", "err"} : TermPubLoopPublish(i, outcome)
    \/ \E i \in PubLoops : TermPubLoopLog(i)
    \/ \E i \in SubLoops : TermSubLoopDefault(i)
    \/ \E i \in SubLoops, kind \in {"self", "garbage", "ok"} : TermSubLoopNext(i, kind)
    \/ \E i \in SubLoops : TermSubLoopSend(i)
    \/ \E i \in SubLoops : TermSubLoopLog(i)
    \/ \E i \in SubLoops : TermSubLoopClosed(i)
    \/ \E i \in SubLoops : TermSubLoopClosedLog(i)
    \/ TermDeliver
    \/ TermNetCloseSub
    \/ \E roomname \in UpdateRooms : UpdateRoomCall(roomname)
    \/ \E i \in PubLoops : UpdateRoomPubTerm(i)
    \/ \E i \in SubLoops : UpdateRoomSubTerm(i)
    \/ \E outcome \in {"ok", "joinerr", "suberr"} : UpdateRoomJoin(outcome)

SpecUpdateRoom == InitUpdateRoom /\ [][NextUpdateRoom]_vars

\* ------------------------------------ the inbound queue in both revisions
\* a run is a run of the node whose sessions are left by Exit, or a run of a
\* ChatRoom that UpdateRoom changes in place
InitInbound == Init \/ InitUpdateRoom

NextInbound ==
    \/ room = RoomJoined("") /\ Next
    \/ mainpc = "start" /\ NextUpdateRoom

SpecInbound == InitInbound /\ [][NextInbound]_vars

\* ------------------------------------------------------------------ claims
Switched(hr) == hr.new # 0
Completed(hr) == hr.pc = "done" /\ Switched(hr)
LoopsRunning(cr) == cr.pubpc # "done" \/ cr.subpc # "done"

\* C1: a /room handler whose JoinChatRoom returned an error never swaps
\* ui.ChatRoom and never calls Exit; its failing join and its log send leave
\* ui.ChatRoom and every session (fields, loops, Exit count) as they were; and
\* it returns only after the "jumperr" entry was displayed.
C1_FailedHandler ==
    \A h \in Slots :
        handlers[h].failed =>
            /\ handlers[h].pc \in {"jumperr", "done"}
            /\ ~Switched(handlers[h])
            /\ handlers[h].pc = "done" => "jumperr" \in shown

C1_FailedStep ==
    \A h \in Slots :
        (handlers'[h].failed /\ handlers'[h] # handlers[h]) =>
            /\ cur' = cur
            /\ chatrooms' = chatrooms

C1_SwitchFailureLeavesSession == []C1_FailedHandler /\ [][C1_FailedStep]_vars

C1_Witness ==
    \E h \in Slots :
        /\ handlers[h].failed
        /\ handlers[h].pc = "done"
        /\ cur = handlers[h].old
        /\ chatrooms[cur].exits = 0
        /\ chatrooms[cur].pubpc = "select"
        /\ chatrooms[cur].subpc = "next"

\* C2: ui.ChatRoom is swapped to the new session only after the old session's
\* loops were cancelled: whenever a handler has made its new session current,
\* Exit has completed on its old session.
C2_ExitBeforeSwap ==
    \A h \in Slots :
        (Switched(handlers[h]) /\ cur = handlers[h].new) =>
            chatrooms[handlers[h].old].psDone

\* C3: at most one session has a publish or subscribe loop running.
C3_OneSessionRunning ==
    Cardinality({s \in Sessions : LoopsRunning(chatrooms[s])}) <= 1

\* C4: from the first successful join until shutdown, ui.ChatRoom designates a
\* session on which Exit has not been called.
C4_NeverWithoutRoom ==
    Alive => /\ cur \in Sessions
             /\ chatrooms[cur].exits = 0

C4_Witness ==
    /\ Alive
    /\ \E h \in Slots : /\ Completed(handlers[h])
                        /\ chatrooms[handlers[h].old].exits > 0
                        /\ chatrooms[handlers[h].old].psDone
                        /\ cur = handlers[h].new

\* C5: once a room switch has completed, no message is handed over on the old
\* session's inbound queue, and a line the user submits is sent to a session
\* other than the old one, on another topic.
C5_Step ==
    \A h \in Slots :
        Completed(handlers[h]) =>
            LET o == handlers[h].old
            IN /\ ~(chatrooms[o].subpc = "send" /\ chatrooms'[o].subpc # "send")
               /\ (evpc = "select" /\ evpc' = "sendOut") =>
                     /\ evSel' # o
                     /\ chatrooms[evSel'].pstopic # chatrooms[o].pstopic

C5_SwitchAtomic == [][C5_Step]_vars

\* C6: no message whose senderID is the local identity is handed over on a
\* session's inbound queue, whichever peer it was received from.
C6_Step ==
    \A s \in Sessions :
        (chatrooms[s].subpc = "send" /\ chatrooms'[s].subpc # "send") =>
            chatrooms[s].subCm.cm.SenderID # Pretty(chatrooms[s].SelfID)

C6_NoSelfSenderEnqueued == [][C6_Step]_vars

\* C7: every published record carries the line taken from the outbound queue,
\* the local identity and the session's user name; the remote peer, subscribed
\* to the topic, enqueues exactly that record; and no session of the publisher
\* is about to enqueue a record it published itself.
Record(p) == [Message |-> p.line, SenderID |-> Pretty(SelfID), SenderName |-> p.user]

C7_PublishedRecord ==
    /\ \A p \in published :
          /\ p.line # ""
          /\ Unmarshal(p.data).ok
          /\ Unmarshal(p.data).cm = Record(p)
          /\ p.topic = TopicName(PeerRoom) =>
                \E q \in PeerInbound : q.pub = p /\ q.cm = Record(p)
    /\ \A q \in PeerInbound : q.cm = Record(q.pub)
    /\ \A s \in Sessions :
          chatrooms[s].subpc = "send" => chatrooms[s].subCm.origin # "self"

C7_Witness ==
    /\ \E q \in PeerInbound : q.pub.user = "u1" /\ q.cm.SenderName = "u1"
    /\ \E s \in Sessions : chatrooms[s].subpc = "next" /\ chatrooms[s].subq = <<>>
                           /\ \E p \in published : p.sess = s

\* C8: a session joined with an empty room name is named "lobby", one joined
\* with an empty user name has the user "newuser", and an argument that is
\* not empty is kept.
C8_JoinDefaults ==
    \A s \in Sessions :
        LET cr == chatrooms[s]
        IN /\ cr.RoomName = IF cr.argRoom = "" THEN "lobby" ELSE cr.argRoom
           /\ cr.UserName = IF cr.argUser = "" THEN "newuser" ELSE cr.argUser

C8_Witness ==
    /\ mainpc = "running"
    /\ flags.room = ""
    /\ flags.user = "u1"
    /\ chatrooms[1].RoomName = "lobby"
    /\ chatrooms[1].UserName = "u1"

\* C9: a publish loop that has a failed publish to report is never blocked for
\* good: the log queue exists, and the event loop, the one receiver of that
\* queue, has not returned and is not itself waiting for this loop to take the
\* next line.
C9_PubLoopStaysAlive ==
    \A s \in Sessions :
        chatrooms[s].pubpc = "log" =>
            /\ chatrooms[s].Logs
            /\ evpc # "done"
            /\ ~(evpc = "sendOut" /\ evSel = s)

\* C10: a subscribe loop of the current, uncancelled session that has a failed
\* unmarshal to report is never blocked for good: the log queue exists.
C10_SubLoopStaysAlive ==
    \A s \in Sessions :
        (chatrooms[s].subpc = "log" /\ s = cur /\ ~chatrooms[s].psDone) =>
            chatrooms[s].Logs

\* no Leave has begun on the session: neither Exit nor UI.Close
NoLeave(cr) == cr.exits = 0 /\ ~cr.psDone

\* C11: a subscribe loop whose Next returned an error has closed the inbound
\* queue and can hand over its log entry (the log queue exists); a subscribe
\* loop that ended without a Leave has closed the queue and a "suberr" entry
\* was displayed; without a Leave the publish loop never ends.
C11_SubscriptionClosed ==
    \A s \in Sessions :
        LET cr == chatrooms[s]
        IN /\ cr.subpc = "closedlog" => (cr.inClosed /\ cr.Logs)
           /\ (cr.subpc = "done" /\ NoLeave(cr)) =>
                 (cr.inClosed /\ "suberr" \in shown)
           /\ NoLeave(cr) => cr.pubpc # "done"

C13_BootstrapCounts ==
    boot.pc = "reported" => boot.report = <<Cardinality(boot.reach), MaxSeeds>>

\* C14: Bootstrap reports only when every per-seed goroutine has returned,
\* and while main is in its loop the start of the next goroutine is enabled
\* whatever the goroutines started before it are doing.
C14_ReportAfterAllResolved ==
    /\ boot.pc = "reported" => \A i \in Seeds : boot.go[i].pc = "done"
    /\ boot.pc = "loop" => ENABLED BootstrapSpawn

C14_Witness ==
    /\ boot.pc = "wait"
    /\ boot.go[1].pc = "connect"
    /\ \A i \in Seeds \ {1} : boot.go[i].pc = "done"

\* C15: Bootstrap is fatal only by the error of KadDHT.Bootstrap, before any
\* seed was tried; no result of the connection attempts makes it fatal.
C15_OnlyOverlayFatal ==
    boot.pc = "fatal" => /\ boot.next = 1
                         /\ boot.wg = 0
                         /\ \A i \in Seeds : boot.go[i].pc = "idle"

C15_Witness ==
    /\ boot.pc = "reported"
    /\ boot.reach = {}
    /\ boot.report[1] = 0

\* C16: while the process lives the discovery loop has not returned, and a
\* peer that advertises and was not yet yielded can still be yielded: the
\* peer channel is open.
C16_DiscoveryForLife ==
    disc.pc = "running" =>
        /\ disc.looppc # "done"
        /\ (disc.advertising \ disc.yielded # {}) => disc.open

\* C17: no connection is attempted to the host itself or to a peer that was
\* not yielded; every other peer yielded has exactly one attempt once the
\* loop is past it; a failed attempt leaves the process running, and the loop
\* ends only when the peer channel is closed.
C17_OneAttemptPerPeer ==
    /\ disc.attempts[SelfID] = 0
    /\ \A p \in DiscPeers \ disc.yielded : disc.attempts[p] = 0
    /\ \A p \in disc.yielded \ {SelfID} :
          disc.attempts[p] = IF disc.looppc = "connect" /\ disc.peer = p THEN 0 ELSE 1
    /\ disc.failed => disc.pc = "running"
    /\ disc.looppc = "done" => ~disc.open

C17_Witness ==
    /\ disc.failed
    /\ disc.open
    /\ disc.looppc = "recv"
    /\ SelfID \in disc.yielded
    /\ disc.attempts[PeerID] = 1
    /\ disc.attempts["late"] = 1

\* all three effects of a Leave on a session
LeftAll(cr) == cr.psDone /\ cr.subCancelled /\ cr.topicClosed

\* C18: once a handler has returned from a room switch, the session it left
\* is cancelled, its subscription cancelled and its topic closed; and once
\* main has returned from ui.Run after /quit, the same holds of the session
\* that was current.
C18_LeaveCompletes ==
    /\ \A h \in Slots :
          Completed(handlers[h]) => LeftAll(chatrooms[handlers[h].old])
    /\ mainpc = "exited" => LeftAll(chatrooms[cur])

\* a loop of session s waits at a plain send that only the event loop can
\* take, and the event loop has left s for good
BlockedForGood(s) ==
    /\ s # cur
    /\ s # evSel
    /\ \/ chatrooms[s].subpc \in {"send", "log", "closedlog"}
       \/ chatrooms[s].pubpc = "log"

\* C19: while the process runs, no loop of a cancelled session is blocked
\* for good.
C19_NoLoopLeaked ==
    \A s \in Sessions :
        (mainpc = "running" /\ chatrooms[s].psDone) => ~BlockedForGood(s)

\* C20: in a step taken after a session was cancelled, that session publishes
\* nothing and hands no message over on its inbound queue; and the process
\* never crashes.
C20_Step ==
    \A s \in Sessions :
        chatrooms[s].psDone =>
            /\ \A p \in published' \ published : p.sess # s
            /\ ~(chatrooms[s].subpc = "send" /\ chatrooms'[s].subpc # "send")

C20_CancelledIsNoOp == [](mainpc # "crashed") /\ [][C20_Step]_vars

\* C21: of two lines submitted on the same session and both published, the
\* one submitted first was published first.
C21_PublishOrder ==
    \A a, b \in published :
        (a.sess = b.sess /\ a.n < b.n) => a.ord < b.ord

C21_Witness ==
    \E a, b \in published : a.sess = b.sess /\ a.n = 1 /\ b.n = 2 /\ b.ord = 2

\* the command lines of a user-input error: no argument, or no such command
BadLines == {<<"/", "room">>, <<"/", "user">>, <<"/", "bogus">>}

\* a step of a handler that was dispatched with a user-input error changes no
\* session, not the current-session reference and no topic, and the handler
\* returns right after its log entry was displayed
C22_Step ==
    \A h \in Slots :
        (handlers[h].pc \in {"badcmd", "badlog"} /\ handlers'[h] # handlers[h]) =>
            /\ UNCHANGED <<chatrooms, cur, psTopics>>
            /\ handlers'[h].pc \in {"badlog", "done"}
            /\ handlers'[h].pc = "done" => "badcmd" \in shown'

\* the handler's send of the "badcmd" entry can be taken: the log queue it
\* sends on exists
C22_LogDeliverable ==
    \A h \in Slots :
        handlers[h].pc = "badlog" => chatrooms[handlers[h].logs].Logs

\* C22: /room or /user without an argument, and an unsupported command, are
\* dispatched to the error case, whose handler produces a "badcmd" log entry
\* and changes neither a session (room name, user name, topic, subscription)
\* nor the current-session reference.
C22_InputErrorNoChange ==
    /\ [](\A line \in BadLines : Dispatch(CmdParts(line)) = "badcmd")
    /\ []C22_LogDeliverable
    /\ [][C22_Step]_vars

\* the part of C22 that holds: no state change by the error case
C22_NoStateChange == [][C22_Step]_vars

\* the identifiers node n has computed so far
Computed(n) == {adv[n].connect2, adv[n].provide} \ {NoCid}

C24_NothingLeftBehind ==
    mainpc = "running" =>
        \A t \in psTopics :
            \E s \in Sessions : chatrooms[s].pstopic = t /\ ~chatrooms[s].topicClosed

\* a record is published only by the loop of the session ui.ChatRoom
\* designates: no loop of a session that was replaced publishes
C25_PublishStep == \A p \in published' \ published : p.sess = cur

\* ui.ChatRoom is written only by main and by a /room handler at its swap
C25_SwapStep ==
    cur' # cur =>
        \/ mainpc = "start"
        \/ \E h \in Slots : handlers[h].pc = "swap" /\ handlers'[h].pc # "swap"

\* C25: every record is published to the topic of the session whose loop
\* published it, no loop publishes once its session was replaced as the
\* current one, and only the room switch writes the current-session reference.
C25_NoStalePublish ==
    /\ [](\A p \in published : p.topic = chatrooms[p.sess].pstopic)
    /\ [][C25_PublishStep]_vars
    /\ [][C25_SwapStep]_vars

\* the one name a /user command of CmdLines sets
NewName == "u2"

\* a /user handler has run: UpdateUser has written the new name somewhere
UserChanged == \E s \in Sessions : chatrooms[s].UserName = NewName

\* no command is being handled
Quiet == \A h \in Slots : handlers[h].pc \in {"idle", "done"}

\* C26: once /user has been handled and no command is in progress, the session
\* ui.ChatRoom designates carries the new name, so that the lines dequeued
\* from now on are stamped with it, also after a room switch.
C26_NewNameKept ==
    (UserChanged /\ Quiet /\ Alive) => chatrooms[cur].UserName = NewName

\* the part of C26 that holds: the step of a /user handler changes the
\* UserName of the current session and nothing else
C26_UserStep ==
    \A h \in Slots :
        (handlers[h].pc = "user" /\ handlers'[h].pc = "done") =>
            /\ chatrooms' = [chatrooms EXCEPT ![cur].UserName = handlers[h].arg]
            /\ UNCHANGED <<cur, psTopics, published, shown>>

C26_OnlyUserName == [][C26_UserStep]_vars

\* a line was entered and the done function, and the event loop after it,
\* are through with it
Consumed == typed.pc = "done" /\ Len(typed.line) > 0

\* C27: a line that starts with "/" has been dispatched as one command and
\* was not submitted for publishing; any other non-empty line has been
\* submitted once and was not dispatched.
C27_OneHandler ==
    Consumed =>
        IF HasPrefixSlash(typed.line)
        THEN typed.dispatched = 1 /\ typed.submitted = 0
        ELSE typed.dispatched = 0 /\ typed.submitted = 1

\* the same of the done function and event loop of part_003 alone, where it
\* holds
C27_OneHandlerLater == typed.rev = "part_003" => C27_OneHandler

\* UpdateRoom has returned an error and no other call has begun
UpdateFailed == room.ret = "err" /\ room.updpc = "idle"

\* C28: after UpdateRoom returned an error, RoomName, topic and subscription
\* are what they were at the call, the subscription is not cancelled, and a
\* publish loop and a subscribe loop of the room are running.
C28_FailedUpdateKeepsRoom ==
    UpdateFailed =>
        /\ room.RoomName = room.was.RoomName
        /\ room.pstopic = room.was.pstopic
        /\ room.subscription = room.was.subscription
        /\ room.subscription \notin room.cancelled
        /\ LivePubLoops # {}
        /\ LiveSubLoops # {}

\* the part of C28 that holds: the three fields are not assigned
C28_FieldsKept ==
    UpdateFailed =>
        /\ room.RoomName = room.was.RoomName
        /\ room.pstopic = room.was.pstopic
        /\ room.subscription = room.was.subscription

\* C29: whenever no UpdateRoom is in progress, the outbound queue of the room
\* has exactly one consumer, its one publish loop.
C29_OneConsumer ==
    room.updpc = "idle" => Cardinality(LivePubLoops) = 1

\* the part of C29 that holds: never two publish loops, never two subscribe
\* loops on one ChatRoom
C29_AtMostOne ==
    Cardinality(LivePubLoops) <= 1 /\ Cardinality(LiveSubLoops) <= 1

\* C30: a session is on the topic that a node joining with the session's
\* RoomName as its room argument is on; so two sessions of equal RoomName,
\* the one joined with "" and the one joined with "lobby", share a topic.
C30_RoomNameIsTopic ==
    \A s \in Sessions :
        chatrooms[s].pstopic =
            NewChatRoom(chatrooms[s].UserName, chatrooms[s].RoomName).pstopic

\* the event loop waits at its send on the outbound queue of session s, and a
\* loop of s waits at a send that only the event loop receives
SendCycle(s) ==
    /\ evpc = "sendOut"
    /\ evSel = s
    /\ chatrooms[s].pubpc = "log"

\* C31: the event loop is never blocked sending a line on the outbound queue
\* while the publish loop that receives from that queue is itself blocked
\* sending a log entry to the event loop.
C31_NoSendCycle == \A s \in Sessions : ~SendCycle(s)

\* the event loop waits at its send on the outbound queue of a session whose
\* publish loop has returned
SendToGone == evpc = "sendOut" /\ chatrooms[evSel].pubpc = "done"

\* C32: while the process runs the event loop has not returned, and it is not
\* blocked for good on the outbound queue of a session that was left.
C32_EventLoopSurvivesSwitch ==
    mainpc = "running" => (evpc # "done" /\ ~SendToGone)

\* C33: once no command is being handled, the session ui.ChatRoom designates
\* has not been left, and every other session was left by exactly one Exit.
C33_NoLeakedSession ==
    (mainpc = "running" /\ Quiet) =>
        /\ NoLeave(chatrooms[cur])
        /\ \A s \in Sessions \ {cur} : chatrooms[s].exits = 1

\* C34: a step in which a publish loop takes a line from the outbound queue
\* and calls Publish is never a step on a session whose topic handle Exit has
\* closed.
C34_NoPublishAfterClose ==
    [][(evpc = "sendOut" /\ evpc' = "select") => ~chatrooms[evSel].topicClosed]_vars

\* a step in which the subscribe loop of session s completes a send on the
\* inbound queue of s or closes it
InboundSendOrClose(s) ==
    \/ chatrooms[s].subpc = "send" /\ chatrooms'[s].subpc # "send"
    \/ chatrooms[s].subpc = "next" /\ chatrooms'[s].subpc = "closedlog"

\* the same for subscribe loop i of the ChatRoom changed in place
InPlaceSendOrClose(i) ==
    \/ room.subs[i] = "send" /\ room'.subs[i] # "send"
    \/ room.subs[i] = "next" /\ room'.subs[i] = "closedlog"

\* C35: no step sends on an inbound queue or closes it once the queue has
\* been closed, in a session left by Exit and in a ChatRoom across UpdateRoom.
C35_InboundClosedOnce ==
    [][/\ \A s \in Sessions : chatrooms[s].inClosed => ~InboundSendOrClose(s)
       /\ room.closes > 0 => \A i \in SubLoops : ~InPlaceSendOrClose(i)
       /\ room'.closes <= 1]_vars

\* the inbound queue of a session that was left has been closed and its
\* subscribe loop has returned
C35_Witness ==
    \E s \in Sessions :
        /\ chatrooms[s].exits > 0
        /\ chatrooms[s].inClosed
        /\ chatrooms[s].subpc = "done"

\* UpdateRoom is called on a ChatRoom whose inbound queue was closed
C35_InPlaceClosed == room.closes = 1 /\ room.updpc = "termSub"

\* publish loop i is at its select, or gets there once its log entry is taken
PubLoopReturnsToSelect(i) ==
    \/ room.pubs[i] = "select"
    \/ room.pubs[i] = "log" /\ logsMade

\* subscribe loop i is at its select, or gets there with what the node holds
\* already: a buffered message, a receiver of its queue, a receiver of its log
SubLoopReturnsToSelect(i) ==
    \/ room.subs[i] = "top"
    \/ room.subs[i] = "send"
    \/ room.subs[i] = "log" /\ logsMade
    \/ room.subs[i] = "next" /\ room.subq > 0

\* C36: a caller of UpdateRoom that waits at one of its two termination sends
\* has a loop that takes the signal, whether or not a message arrives.
C36_UpdateRoomReturns ==
    /\ room.updpc = "termPub" => \E i \in PubLoops : PubLoopReturnsToSelect(i)
    /\ room.updpc = "termSub" => \E i \in SubLoops : SubLoopReturnsToSelect(i)

\* UpdateRoom waits at a termination send and every loop that could take it
\* has returned
C36_LoopGone ==
    \/ room.updpc = "termPub" /\ LivePubLoops = {}
    \/ room.updpc = "termSub" /\ LiveSubLoops = {}

\* C37: main never hands NewUI a ChatRoom that JoinChatRoom did not create (the
\* nil dereference that follows is the state "panicked"): past the join, the
\* process has a session.
C37_NoUIOnMissingSession ==
    /\ mainpc # "panicked"
    /\ mainpc # "start" => cur \in Sessions

====
